---------------------------- MODULE Spec2Model ----------------------------
(***************************************************************************)
(* Model of the volumetric fog fragment shader (volumetric.frag): the slab *)
(* clipper clipRayEndpoints and the raymarch integrator march with its     *)
(* helper sampleOneStep.                                                   *)
(*                                                                         *)
(* The shader computes in binary32: a float is <<sign, mantissa,           *)
(* exponent>>, and every sum, product, quotient and root is rounded to     *)
(* nearest, ties to even.  Vectors are tuples of floats.  The noise        *)
(* texture is an input: in march each sample draws its raw density from    *)
(* the values of the field, and sampleFogDensity draws its texels.         *)
(***************************************************************************)
EXTENDS Integers, Sequences, FiniteSets

(***************************************************************************)
(* Bounds of the model.                                                    *)
(***************************************************************************)
\* ray end points are start + k * direction for k in 0..MaxScale
MaxScale == 2
\* ray start heights range over -1..MaxStartY
MaxStartY == 3
\* maxRaymarchStepCount ranges over 0..MaxStepCap
MaxStepCap == 1
\* setSize is called with widths in 1..MaxSize
MaxSize == 1

(***************************************************************************)
(* Evaluation, and the rationals: the decimal literals of the shader and   *)
(* the real numbers the floats are.                                        *)
(***************************************************************************)
\* the element of a singleton set; {F(a) : a \in {x}} applies F to the value
\* of x, so that an operand is evaluated once however often F reads it
Val(S) == CHOOSE v \in S : TRUE

\* F applied to the value of x
Let(x, F(_)) == Val({F(a) : a \in {x}})

\* F applied n times to the value of x, each application to the value of the
\* one before; F leaves a finished state as it is
Iter2(F(_), x) == Val({F(b) : b \in {F(a) : a \in {x}}})

Iter4(F(_), x) == Val({Iter2(F, b) : b \in {Iter2(F, a) : a \in {x}}})

Iter8(F(_), x) == Val({Iter4(F, b) : b \in {Iter4(F, a) : a \in {x}}})

Iter16(F(_), x) == Val({Iter8(F, b) : b \in {Iter8(F, a) : a \in {x}}})

Iter32(F(_), x) == Val({Iter16(F, b) : b \in {Iter16(F, a) : a \in {x}}})

Iter64(F(_), x) == Val({Iter32(F, b) : b \in {Iter32(F, a) : a \in {x}}})

Abs(x) == IF x < 0 THEN -x ELSE x

Sgn(x) == IF x < 0 THEN -1 ELSE IF x > 0 THEN 1 ELSE 0

RECURSIVE Gcd(_, _)
Gcd(x, y) == IF y = 0 THEN x ELSE Val({Gcd(b, a % b) : a \in {x}, b \in {y}})

\* the rational n/d, in lowest terms; n/0 is an infinity or NaN
Frac(n, d) ==
  IF d = 0 THEN <<Sgn(n), 0>>
  ELSE Val({<<(Sgn(d) * n) \div g, Abs(d) \div g>> : g \in {Gcd(Abs(n), Abs(d))}})

R(n) == <<n, 1>>

NaN == <<0, 0>>

IsNaN(x) == x = NaN

RNeg(x) == Val({<<-a[1], a[2]>> : a \in {x}})

RAdd(x, y) ==
  LET Sum(a, b) ==
        IF IsNaN(a) \/ IsNaN(b) THEN NaN
        ELSE IF a[2] = 0 THEN (IF b[2] = 0 /\ b # a THEN NaN ELSE a)
        ELSE IF b[2] = 0 THEN b
        ELSE Val({Frac(a[1] * (l \div a[2]) + b[1] * (l \div b[2]), l) :
                    l \in {(a[2] \div Gcd(a[2], b[2])) * b[2]}})
  IN  Val({Sum(a, b) : a \in {x}, b \in {y}})

RSub(x, y) == RAdd(x, RNeg(y))

RMul(x, y) ==
  LET Product(a, b) ==
        IF a[2] = 0 \/ b[2] = 0 THEN <<Sgn(a[1]) * Sgn(b[1]), 0>>
        ELSE Val({Frac((a[1] \div g1) * (b[1] \div g2), (a[2] \div g2) * (b[2] \div g1)) :
                    g1 \in {Gcd(Abs(a[1]), b[2])}, g2 \in {Gcd(Abs(b[1]), a[2])}})
  IN  Val({Product(a, b) : a \in {x}, b \in {y}})

\* x == y
REq(x, y) == \E a \in {x} : ~IsNaN(a) /\ a = y

(***************************************************************************)
(* Floats in binary32, in which the shader computes.                       *)
(* A float is <<sign, mantissa, exponent>>, of value sign * mantissa *     *)
(* 2^exponent with 2^23 <= mantissa < 2^24; a zero is <<sign, 0, 0>>, an   *)
(* infinity is <<sign, 0, 1>> and NaN is <<0, 0, 0>>.  The largest float   *)
(* is (2^24 - 1) * 2^104; below 2^-126 the floats are the multiples of     *)
(* 2^-149, written with the same 24 bit mantissa (2^-149 is <<1, 2^23,     *)
(* -172>>).  Every operation rounds to nearest, ties to even.              *)
(***************************************************************************)
\* Pow2[k + 1] = 2^k
Pow2 == <<1, 2, 4, 8, 16, 32, 64, 128, 256, 512, 1024, 2048, 4096, 8192, 16384,
          32768, 65536, 131072, 262144, 524288, 1048576, 2097152, 4194304,
          8388608, 16777216, 33554432, 67108864, 134217728, 268435456,
          536870912, 1073741824>>

\* +0
FZero == <<1, 0, 0>>

\* +0 or -0
FSignedZero(sign) == <<sign, 0, 0>>

FNaN == <<0, 0, 0>>

FInf(sign) == <<sign, 0, 1>>

IsFNaN(f) == f = FNaN

IsFInf(f) == f[2] = 0 /\ f[3] = 1

IsFZero(f) == f[1] # 0 /\ f[2] = 0 /\ f[3] = 0

\* the float nearest sign * (M + fraction) * 2^E, where 0 <= fraction < 1 and
\* sticky tells fraction > 0; with sticky, M has 26 bits at least
RoundToFloat(sign, M, E, sticky) ==
  LET \* m * 2^e with m <= 2^24 and e >= -149: a float, or beyond the largest
      Normal(m, e) ==
        IF m = 0 THEN FSignedZero(sign)
        ELSE IF m = 16777216
             THEN (IF e + 1 > 104 THEN FInf(sign) ELSE <<sign, 8388608, e + 1>>)
        ELSE Val({IF e - k > 104 THEN FInf(sign) ELSE <<sign, m * Pow2[k + 1], e - k>> :
                    k \in {CHOOSE k \in 0..23 : m * Pow2[k + 1] >= 8388608}})
      \* m without its k lowest bits, k >= 1
      Rounded(m, e, k) ==
        Val({Val({Normal(q + up, e + k) :
                    up \in {IF k >= 32 THEN 0
                            ELSE IF r > Pow2[k] \/ (r = Pow2[k] /\ (sticky \/ q % 2 = 1))
                                 THEN 1 ELSE 0}}) :
               q \in {IF k >= 31 THEN 0 ELSE m \div Pow2[k + 1]},
               r \in {IF k >= 31 THEN m ELSE m % Pow2[k + 1]}})
      \* the bits to drop: those beyond 24, and those below 2^-149
      Drop(m, e) ==
        Val({IF -149 - e > k THEN -149 - e ELSE k :
               k \in {IF m < 16777216 THEN 0
                      ELSE CHOOSE k \in 1..7 : m \div Pow2[k + 1] < 16777216}})
      Pack(m, e) ==
        Val({IF k = 0 THEN Normal(m, e) ELSE Rounded(m, e, k) : k \in {Drop(m, e)}})
  IN  Val({Pack(m, e) : m \in {M}, e \in {E}})

\* the float nearest the rational x
FromR(x) ==
  LET \* one more bit of the quotient: <<q, rem, d, e>>
      Bit(t) ==
        Val({IF a[1] >= 33554432 \/ a[2] = 0 THEN a
             ELSE IF 2 * a[2] >= a[3] THEN <<2 * a[1] + 1, 2 * a[2] - a[3], a[3], a[4] - 1>>
             ELSE <<2 * a[1], 2 * a[2], a[3], a[4] - 1>> : a \in {t}})
      Quotient(sign, n, d) ==
        Val({RoundToFloat(sign, t[1], t[4], t[2] > 0) :
               t \in {Iter64(Bit, <<n \div d, n % d, d, 0>>)}})
      Convert(a) ==
        IF a[2] = 0 THEN (IF a[1] = 0 THEN FNaN ELSE FInf(a[1]))
        ELSE IF a[1] = 0 THEN FZero
        ELSE IF a[2] = 1 THEN RoundToFloat(Sgn(a[1]), Abs(a[1]), 0, FALSE)
        ELSE Quotient(Sgn(a[1]), Abs(a[1]), a[2])
  IN  Val({Convert(a) : a \in {x}})

\* the rational a float is
ToR(f) ==
  LET \* a factor 2 of the mantissa moved to the exponent: <<m, e>>
      Strip(t) ==
        Val({IF a[2] < 0 /\ a[1] % 2 = 0 THEN <<a[1] \div 2, a[2] + 1>> ELSE a : a \in {t}})
      Value(sign, t) ==
        IF t[2] >= 0 THEN <<sign * t[1] * Pow2[t[2] + 1], 1>>
        ELSE <<sign * t[1], Pow2[1 - t[2]]>>
      Convert(a) ==
        IF IsFNaN(a) THEN NaN
        ELSE IF IsFInf(a) THEN <<a[1], 0>>
        ELSE IF IsFZero(a) THEN R(0)
        ELSE Val({Value(a[1], t) : t \in {Iter32(Strip, <<a[2], a[3]>>)}})
  IN  Val({Convert(a) : a \in {f}})

FNeg(f) == Val({<<-a[1], a[2], a[3]>> : a \in {f}})

\* x + y
FAdd(x, y) ==
  LET \* a has the larger exponent
      Aligned(a, b, A, B, sticky) ==
        IF a[1] = b[1] THEN RoundToFloat(a[1], A + B, a[3] - 6, sticky)
        ELSE Val({IF D = 0 THEN FZero
                  ELSE IF D < 0 THEN RoundToFloat(b[1], -D, a[3] - 6, FALSE)
                  ELSE RoundToFloat(a[1], D, a[3] - 6, sticky) :
                    D \in {A - B - (IF sticky THEN 1 ELSE 0)}})
      Ordered(a, b) ==
        Val({IF diff >= 31 THEN Aligned(a, b, a[2] * 64, 0, TRUE)
             ELSE Aligned(a, b, a[2] * 64, (b[2] * 64) \div Pow2[diff + 1],
                          (b[2] * 64) % Pow2[diff + 1] # 0) :
               diff \in {a[3] - b[3]}})
      Sum(a, b) ==
        IF IsFNaN(a) \/ IsFNaN(b) THEN FNaN
        ELSE IF IsFInf(a) THEN (IF IsFInf(b) /\ b # a THEN FNaN ELSE a)
        ELSE IF IsFInf(b) THEN b
        ELSE IF IsFZero(a) THEN (IF IsFZero(b) /\ b # a THEN FZero ELSE b)
        ELSE IF IsFZero(b) THEN a
        ELSE IF a[3] >= b[3] THEN Ordered(a, b) ELSE Ordered(b, a)
  IN  Val({Sum(a, b) : a \in {x}, b \in {y}})

\* x - y
FSub(x, y) == FAdd(x, FNeg(y))

\* x * y
FMul(x, y) ==
  LET \* the product of the mantissas is H * 2^24 + r
      Halves(sign, e, H, r) ==
        RoundToFloat(sign, H * 16 + r \div 1048576, e + 20, r % 1048576 # 0)
      Limbs(sign, e, hi, mid, low) ==
        Val({Halves(sign, e, hi + mid \div 4096 + l \div 16777216, l % 16777216) :
               l \in {(mid % 4096) * 4096 + low}})
      Product(a, b) ==
        IF IsFNaN(a) \/ IsFNaN(b) THEN FNaN
        ELSE IF IsFInf(a) \/ IsFInf(b)
             THEN (IF IsFZero(a) \/ IsFZero(b) THEN FNaN ELSE FInf(a[1] * b[1]))
        ELSE IF IsFZero(a) \/ IsFZero(b) THEN FSignedZero(a[1] * b[1])
        ELSE Val({Limbs(a[1] * b[1], a[3] + b[3], a1 * b1, a1 * b0 + a0 * b1, a0 * b0) :
                    a1 \in {a[2] \div 4096}, a0 \in {a[2] % 4096},
                    b1 \in {b[2] \div 4096}, b0 \in {b[2] % 4096}})
  IN  Val({Product(a, b) : a \in {x}, b \in {y}})

\* x / y; a division by a zero gives an infinity
FDiv(x, y) ==
  LET \* one more bit of the quotient: <<q, rem, d, e>>
      Bit(t) ==
        Val({IF a[1] >= 33554432 \/ a[2] = 0 THEN a
             ELSE IF 2 * a[2] >= a[3] THEN <<2 * a[1] + 1, 2 * a[2] - a[3], a[3], a[4] - 1>>
             ELSE <<2 * a[1], 2 * a[2], a[3], a[4] - 1>> : a \in {t}})
      Quotient(a, b) ==
        Val({RoundToFloat(a[1] * b[1], t[1], t[4], t[2] > 0) :
               t \in {Iter32(Bit, <<a[2] \div b[2], a[2] % b[2], b[2], a[3] - b[3]>>)}})
      Ratio(a, b) ==
        IF IsFNaN(a) \/ IsFNaN(b) THEN FNaN
        ELSE IF IsFInf(a) THEN (IF IsFInf(b) THEN FNaN ELSE FInf(a[1] * b[1]))
        ELSE IF IsFInf(b) THEN FSignedZero(a[1] * b[1])
        ELSE IF IsFZero(b) THEN (IF IsFZero(a) THEN FNaN ELSE FInf(a[1] * b[1]))
        ELSE IF IsFZero(a) THEN FSignedZero(a[1] * b[1])
        ELSE Quotient(a, b)
  IN  Val({Ratio(a, b) : a \in {x}, b \in {y}})

\* sqrt(x)
FSqrt(x) ==
  LET \* the floor of the root of n, by bisection: <<n, lo, hi>>
      Halve(t) ==
        Val({IF a[2] >= a[3] THEN a
             ELSE Val({IF mid <= a[1] \div mid THEN <<a[1], mid, a[3]>>
                       ELSE <<a[1], a[2], mid - 1>> : mid \in {(a[2] + a[3] + 1) \div 2}}) :
               a \in {t}})
      \* one more bit of the root: <<r, rem, e>>
      Bit(t) ==
        Val({IF a[1] >= 33554432 \/ a[2] = 0 THEN a
             ELSE IF 4 * a[2] >= 4 * a[1] + 1
                  THEN <<2 * a[1] + 1, 4 * a[2] - (4 * a[1] + 1), a[3] - 1>>
             ELSE <<2 * a[1], 4 * a[2], a[3] - 1>> : a \in {t}})
      \* the root of m * 2^e, e even
      Even(m, e) ==
        Val({Val({RoundToFloat(1, t[1], t[3], t[2] > 0) :
                    t \in {Iter32(Bit, <<r, m - r * r, e \div 2>>)}}) :
               r \in {Iter16(Halve, <<m, 0, 5793>>)[2]}})
      Root(a) ==
        IF IsFNaN(a) THEN FNaN
        ELSE IF IsFZero(a) THEN a
        ELSE IF a[1] < 0 THEN FNaN
        ELSE IF IsFInf(a) THEN a
        ELSE IF a[3] % 2 = 0 THEN Even(a[2], a[3]) ELSE Even(2 * a[2], a[3] - 1)
  IN  Val({Root(a) : a \in {x}})

\* x < y; every comparison with NaN is false
FLt(x, y) ==
  LET \* the place of a float in the order of the floats
      Key(a) ==
        IF IsFZero(a) THEN <<0, 0, 0>>
        ELSE IF IsFInf(a) THEN <<a[1], 1000000, 0>>
        ELSE <<a[1], a[3], a[2]>>
      Above(k, l) == k[2] < l[2] \/ (k[2] = l[2] /\ k[3] < l[3])
      Less(k, l) ==
        \/ k[1] < l[1]
        \/ k[1] = 1 /\ l[1] = 1 /\ Above(k, l)
        \/ k[1] = -1 /\ l[1] = -1 /\ Above(l, k)
  IN  \E a \in {x}, b \in {y} :
        ~IsFNaN(a) /\ ~IsFNaN(b) /\ \E k \in {Key(a)}, l \in {Key(b)} : Less(k, l)

\* the float nearest n / d
Float(n, d) == FromR(Frac(n, d))

\* x == y; NaN equals nothing, and the two zeros are equal
FEq(x, y) == \E a \in {x}, b \in {y} : ~IsFNaN(a) /\ (a = b \/ (IsFZero(a) /\ IsFZero(b)))

\* x <= y
FLe(x, y) == \E a \in {x}, b \in {y} : FEq(a, b) \/ FLt(a, b)

\* GLSL min(x, y): y < x ? y : x
FMin(x, y) == Val({IF FLt(b, a) THEN b ELSE a : a \in {x}, b \in {y}})

\* GLSL max(x, y): x < y ? y : x
FMax(x, y) == Val({IF FLt(a, b) THEN b ELSE a : a \in {x}, b \in {y}})

\* GLSL clamp(x, lo, hi): min(max(x, lo), hi)
FClamp(x, lo, hi) == FMin(FMax(x, lo), hi)

\* the next float above f
FSucc(f) ==
  LET \* 2^e
      Bit(e) == <<1, 8388608, e - 23>>
      Up(a) ==
        IF IsFNaN(a) THEN a
        ELSE IF IsFInf(a) THEN (IF a[1] > 0 THEN a ELSE <<-1, 16777215, 104>>)
        ELSE IF IsFZero(a) THEN Bit(-149)
        ELSE IF a = FNeg(Bit(-149)) THEN FSignedZero(-1)
        ELSE IF a[1] < 0 /\ a[2] = 8388608 /\ a[3] > -149 THEN FAdd(a, Bit(a[3] - 1))
        ELSE FAdd(a, Bit(IF a[3] > -149 THEN a[3] ELSE -149))
  IN  Val({Up(a) : a \in {f}})

\* the next float below f
FPred(f) == FNeg(FSucc(FNeg(f)))

\* the floats at most n places from f in the order of the floats, n <= 64
FNear(f, n) ==
  LET \* <<floats so far, places left>>
      Wider(t) ==
        Val({IF a[2] = 0 THEN a
             ELSE <<a[1] \cup {FPred(c) : c \in a[1]} \cup {FSucc(c) : c \in a[1]}, a[2] - 1>> :
               a \in {t}})
  IN  Iter64(Wider, <<{f}, n>>)[1]

(***************************************************************************)
(* vec3 arithmetic, component by component in binary32.                    *)
(***************************************************************************)
Vec3(x, y, z) == <<Float(x, 1), Float(y, 1), Float(z, 1)>>

VAdd(x, y) ==
  Val({<<FAdd(a[1], b[1]), FAdd(a[2], b[2]), FAdd(a[3], b[3])>> : a \in {x}, b \in {y}})

VSub(x, y) ==
  Val({<<FSub(a[1], b[1]), FSub(a[2], b[2]), FSub(a[3], b[3])>> : a \in {x}, b \in {y}})

VScale(x, y) ==
  Val({<<FMul(a[1], s), FMul(a[2], s), FMul(a[3], s)>> : a \in {x}, s \in {y}})

\* x == y on vectors: every component compares equal
VEq(x, y) ==
  \E a \in {x}, b \in {y} : FEq(a[1], b[1]) /\ FEq(a[2], b[2]) /\ FEq(a[3], b[3])

Dot(x, y) ==
  Val({FAdd(FAdd(FMul(a[1], b[1]), FMul(a[2], b[2])), FMul(a[3], b[3])) :
         a \in {x}, b \in {y}})

\* length(v) = sqrt(dot(v, v))
Length(a) == FSqrt(Dot(a, a))

\* normalize(v) = v / length(v); the zero vector gives NaN components
Normalize(x) ==
  Val({<<FDiv(a[1], l), FDiv(a[2], l), FDiv(a[3], l)>> : a \in {x}, l \in {Length(x)}})

\* mix(x, y, t) = x * (1 - t) + y * t
VMix(x, y, t) == VAdd(VScale(x, FSub(Float(1, 1), t)), VScale(y, t))

(***************************************************************************)
(* State.  The uniforms keep their shader names; the locals of march keep  *)
(* theirs.  rayStartPos and rayEndPos are the arguments main passes to     *)
(* march.  The history variables: planeDirs lists the rayDirection.y of    *)
(* every intersectRayXZPlane call, lastSample is the latest call of        *)
(* sampleOneStep, rawSeen the raw densities sampled so far, outcome the    *)
(* terminal state of the integrator, clipped the segment returned by the   *)
(* previous application of clipRayEndpoints.                               *)
(***************************************************************************)
VARIABLES fogMinY, fogMaxY, baseRaymarchStepCount, maxRaymarchStepCount,
          baseMaxRayLength, minStepLength, maxDensity, fogColorHighDensity,
          fogColorLowDensity, fogDensityMultiplier, postDensityMultiplier,
          postDensityPow, blueNoiseSample,
          rayStartPos, rayEndPos,
          pc, startPos, endPos, rayDir, rayLength, maxRayLength,
          baseStepLength, jitter, density, totalDistance, totalIters,
          accumulatedColor, result,
          planeDirs, lastSample, rawSeen, outcome, clipped

\* sampleFogDensity: its uniforms, the height of the sampled position, its
\* locals, and the value of noise after the remap and after the clamp
VARIABLES noiseBias, noisePow, heightFogStartY, heightFogEndY, heightFogFactor,
          fogFadeOutRangeY, fogFadeOutPow,
          worldPosY, octave, noise, totalSampledMagnitude,
          remapped, clampedNoise

noiseUniformVars == <<noiseBias, noisePow, heightFogStartY, heightFogEndY,
                      heightFogFactor, fogFadeOutRangeY, fogFadeOutPow>>

noiseVars == <<noiseUniformVars, worldPosY, octave, noise, totalSampledMagnitude,
               remapped, clampedNoise>>

uniformVars == <<fogMinY, fogMaxY, baseRaymarchStepCount, maxRaymarchStepCount,
                 baseMaxRayLength, minStepLength, maxDensity, fogColorHighDensity,
                 fogColorLowDensity, fogDensityMultiplier, postDensityMultiplier,
                 postDensityPow, blueNoiseSample>>

rayVars == <<rayStartPos, rayEndPos>>

setupVars == <<rayDir, rayLength, maxRayLength, baseStepLength, jitter>>

loopVars == <<density, totalDistance, totalIters, accumulatedColor>>

sampleVars == <<lastSample, rawSeen>>

\* VolumetricPass and its VolumetricMaterial: the fields keep their names.
\* params is the object the caller passed, which the caller may go on
\* mutating; uniforms is material.uniforms without resolution, which is kept
\* apart as a pair; sceneLight is the ambient light object of the caller and
\* whether it is among scene.children; defines tells whether
\* DO_DIRECT_COMPOSITING is defined; blueNoiseLoad is the state of the
\* promise of getBlueNoiseTexture.  The history variables:
\* constructedHalfRes is params.halfRes as the constructor saw it,
\* texturesGenerated counts the noise textures created, lastSize is the
\* latest argument of setSize, rendered is what the latest render drew with,
\* uniformsCurrent tells that neither params nor the light has changed since
\* the latest updateUniforms.  curTimeSeconds is the field setCurTimeSeconds
\* writes and render copies into the uniform of that name.
VARIABLES passPc, params, uniforms, resolution, sceneLight, ambientLight,
          compositorPass, fogRenderTarget, noiseTexture3D, blueNoiseLoad,
          renderToScreen, defines,
          curTimeSeconds,
          constructedHalfRes, texturesGenerated, lastSize, rendered,
          uniformsCurrent

passVars == <<passPc, params, uniforms, resolution, sceneLight, ambientLight,
              compositorPass, fogRenderTarget, noiseTexture3D, blueNoiseLoad,
              renderToScreen, defines, curTimeSeconds,
              constructedHalfRes, texturesGenerated, lastSize, rendered,
              uniformsCurrent>>

marchVars == <<rayVars, startPos, endPos, setupVars, loopVars,
               result, planeDirs, lastSample, rawSeen, outcome, clipped>>

vars == <<uniformVars, pc, marchVars, noiseVars, passVars>>

(***************************************************************************)
(* Constants of the shader.                                                *)
(***************************************************************************)
\* if (rawDensity > 0.01)
DensityGate == Float(1, 100)

\* if (density >= (maxDensity - 0.01))
SaturationTolerance == Float(1, 100)

\* clamp(density * 12., 0., 1.)
ColorSharpen == 12

\* maxRayLength += min(rayLength * 0.2, 1500.)
LongRayFactor == Float(1, 5)

LongRayCap == 1500

\* jitter = (blueNoiseSample - 0.5) * 0.1
JitterCentre == Float(1, 2)

JitterScale == Float(1, 10)

\* stepLength += jitter * 0.2
StepJitterScale == Float(1, 5)

\* return vec4(1., 1., 0., 1.)
Sentinel == <<Float(1, 1), Float(1, 1), FZero, Float(1, 1)>>

\* return vec4(0.0)
Transparent == <<FZero, FZero, FZero, FZero>>

Zero3 == Vec3(0, 0, 0)

\* lastSample before the first call of sampleOneStep
NoSample == [curPos |-> Zero3, rawDensity |-> FZero, stepSize |-> FZero]

(***************************************************************************)
(* SlabClipper.                                                            *)
(***************************************************************************)
\* -(rayOrigin.y - planeDistance) / rayDirection.y
intersectRayXZPlane(rayOrigin, rayDirection, planeDistance) ==
  FDiv(FNeg(FSub(rayOrigin[2], planeDistance)), rayDirection[2])

\* startPos + rayDir * intersectRayXZPlane(startPos, rayDir, plane)
ClampToPlane(p, dir, plane) ==
  Val({<<FAdd(a[1], FMul(d[1], t)), FAdd(a[2], FMul(d[2], t)),
         FAdd(a[3], FMul(d[3], t))>> :
         a \in {p}, d \in {dir}, t \in {intersectRayXZPlane(p, dir, plane)}})

\* the segment is entirely below fogMinY or entirely above fogMaxY
OutOfFogRange(s, e, minY, maxY) ==
  \/ FLt(s[2], minY) /\ FLt(e[2], minY)
  \/ FLt(maxY, s[2]) /\ FLt(maxY, e[2])

\* the collapse forgotten: the segment is returned as it came
CollapseKeepsSegment(s, e) == [startPos |-> s, endPos |-> e, planeDirs |-> <<>>]

\* startPos = endPos; return
Collapse(s, e) == [startPos |-> e, endPos |-> e, planeDirs |-> <<>>]

\* the four clamps of clipRayEndpoints, in source order: which fire
ClampStartMinInclusive(s, e, minY, maxY) ==
  FLt(s[2], minY) \/ (~IsFNaN(minY) /\ s[2] = minY)

ClampStartMin(s, e, minY, maxY) == FLt(s[2], minY)

ClampEndMin(s, e, minY, maxY) == FLt(e[2], minY)

ClampEndMax(s, e, minY, maxY) == FLt(maxY, e[2])

ClampStartMax(s, e, minY, maxY) == FLt(maxY, s[2])

\* the values of the inout parameters on return, and the rayDirection.y of
\* each intersectRayXZPlane call made
clipRayEndpoints(s0, e0, minY, maxY) ==
  IF OutOfFogRange(s0, e0, minY, maxY)
  THEN Collapse(s0, e0)
  ELSE LET call(c, dir) == IF c THEN <<dir[2]>> ELSE <<>>
       IN  Let(Normalize(VSub(e0, s0)), LAMBDA dir :
           Let(ClampStartMin(s0, e0, minY, maxY), LAMBDA c1 :
           Let(IF c1 THEN ClampToPlane(s0, dir, minY) ELSE s0, LAMBDA s1 :
           Let(ClampEndMin(s1, e0, minY, maxY), LAMBDA c2 :
           Let(IF c2 THEN ClampToPlane(s1, dir, minY) ELSE e0, LAMBDA e1 :
           Let(ClampEndMax(s1, e1, minY, maxY), LAMBDA c3 :
           Let(IF c3 THEN ClampToPlane(s1, dir, maxY) ELSE e1, LAMBDA e2 :
           Let(ClampStartMax(s1, e2, minY, maxY), LAMBDA c4 :
           Let(IF c4 THEN ClampToPlane(s1, dir, maxY) ELSE s1, LAMBDA s2 :
             [startPos |-> s2, endPos |-> e2,
              planeDirs |-> call(c1, dir) \o call(c2, dir) \o call(c3, dir)
                              \o call(c4, dir)])))))))))

(***************************************************************************)
(* ColorModel and one integration step.                                    *)
(***************************************************************************)
\* DO_LIGHTING is 0: the colour is the density-driven blend alone
computeColor(rawDensity) ==
  VMix(fogColorLowDensity, fogColorHighDensity,
       FClamp(FMul(rawDensity, Float(ColorSharpen, 1)), FZero, Float(1, 1)))

\* the remaining opacity forgotten: each sample adds its full density
sampleOneStepAdditive(dist, stepSize, start, dir, accColor, accDensity, rawDensity) ==
  Let(VAdd(start, VScale(dir, dist)), LAMBDA curPos :
  Let(FMul(FMul(rawDensity, stepSize), fogDensityMultiplier), LAMBDA dens :
    IF FLt(DensityGate, rawDensity)
    THEN Let(computeColor(rawDensity), LAMBDA color :
           [accumulatedColor   |-> VAdd(accColor, VScale(color, dens)),
            accumulatedDensity |-> FAdd(accDensity, dens),
            curPos             |-> curPos])
    ELSE [accumulatedColor |-> accColor, accumulatedDensity |-> accDensity,
          curPos |-> curPos]))

\* the values of the inout parameters on return, with the sampled position
sampleOneStep(dist, stepSize, start, dir, accColor, accDensity, rawDensity) ==
  Let(VAdd(start, VScale(dir, dist)), LAMBDA curPos :
  Let(FMul(FMul(rawDensity, stepSize), fogDensityMultiplier), LAMBDA dens :
    IF FLt(DensityGate, rawDensity)
    THEN Let(computeColor(rawDensity), LAMBDA color :
         Let(FSub(Float(1, 1), accDensity), LAMBDA remainingOpacity :
           [accumulatedColor   |-> VAdd(accColor, VScale(VScale(color, dens), remainingOpacity)),
            accumulatedDensity |-> FAdd(accDensity, FMul(dens, remainingOpacity)),
            curPos             |-> curPos]))
    ELSE [accumulatedColor |-> accColor, accumulatedDensity |-> accDensity,
          curPos |-> curPos]))

\* stepLength = max(baseStepLength, minStepLength) + jitter * 0.2
StepLength == FAdd(FMax(baseStepLength, minStepLength), FMul(jitter, StepJitterScale))

\* while (totalDistance < rayLength)
LoopCondition == FLt(totalDistance, rayLength)

\* totalIters += 1
NextIters(n) == n + 1

\* the check firing one iteration early
CapReached == totalIters >= maxRaymarchStepCount

\* if (totalIters > maxRaymarchStepCount)
CapExceeded == totalIters > maxRaymarchStepCount

\* the early exit forgotten
NeverSaturated(d) == FALSE

\* if (density >= (maxDensity - 0.01))
IsSaturated(d) == FLe(FSub(maxDensity, SaturationTolerance), d)

\* pow(x, n.) for a natural exponent n up to 64.  GLSL gives pow no exact
\* value: the results are the product x * x * ... * x of binary32 and, from
\* three factors on, the floats at most n - 1 places from it, one place for
\* each product that rounds, among them the power rounded once.  For x < 0
\* pow is undefined: a build gives the signed power, or NaN
PowResults(x, n) ==
  LET \* <<power so far, x, factors left>>
      Times(t) ==
        Val({IF a[3] = 0 THEN a ELSE <<FMul(a[1], a[2]), a[2], a[3] - 1>> : a \in {t}})
      Powers(a) ==
        Val({(IF n <= 2 THEN {p} ELSE FNear(p, n - 1))
               \cup (IF FLt(a, FZero) THEN {FNaN} ELSE {}) :
               p \in {Iter64(Times, <<Float(1, 1), a, n>>)[1]}})
  IN  Val({Powers(a) : a \in {x}})

\* clamp(vec4(accumulatedColor, density), 0., 1.)
ShapedResult(color, d) ==
  <<FClamp(color[1], FZero, Float(1, 1)), FClamp(color[2], FZero, Float(1, 1)),
    FClamp(color[3], FZero, Float(1, 1)), FClamp(d, FZero, Float(1, 1))>>

(***************************************************************************)
(* Inputs.                                                                 *)
(***************************************************************************)
StartHeights == -1..MaxStartY

\* integer vectors of integer length: the length is exact, and the clipper's
\* roundings leave the clamped points on the planes
Directions == {<<0, 1, 0>>, <<0, -1, 0>>, <<1, 0, 0>>,
               <<3, 4, 0>>, <<3, -4, 0>>, <<0, -4, 3>>}

Rays == {<<Vec3(0, y, 0), Vec3(k * d[1], y + k * d[2], k * d[3])>> :
           y \in StartHeights, d \in Directions, k \in 0..MaxScale}

\* rays whose direction has no exact float: the clipper rounds on them
SlopedRays ==
  {<<Vec3(0, y, 0), Vec3(3 * k, y - 4 * k, 4 * k)>> :
     y \in StartHeights, k \in 1..MaxScale}
  \cup {<<Vec3(5, y, 5), Vec3(5 - 3 * k, y - 5 * k, 5 - 4 * k)>> :
           y \in StartHeights, k \in 1..MaxScale}

\* <<fogMinY, fogMaxY>>: a slab, a slab of no height, inverted bounds
FogBounds == {<<0, 2>>, <<1, 1>>, <<2, 0>>}

\* the bounds march is run with
MarchFogBounds == {<<0, 2>>, <<1, 1>>}

BaseStepCounts == {1, 200}

StepCaps == 0..MaxStepCap

BaseMaxRayLengths == {Float(1, 1), Float(300, 1)}

MinStepLengths == {FZero, Float(1, 5)}

MaxDensities == {Float(1, 2), Float(1, 1)}

\* texel values of the blue noise texture: 0 (also the unbound texture), 0.5, 1
BlueNoiseSamples == {FZero, Float(1, 2), Float(1, 1)}

FogDensityMultipliers == {Float(4, 1)}

PostDensityMultipliers == {Float(6, 5)}

PostDensityPows == {1}

\* values sampleFogDensity returns: at the gate, and two above it
RawDensities == {Float(1, 100), Float(1, 2), Float(1, 1)}

\* the long marches: a ray of length 7 inside the slab, marched in steps of
\* about minStepLength = 0.2, with the caps around the number of passes it
\* takes (34 to 37, by the jitter), through a field of one density: at the
\* gate, thin (no saturation within the ray) or thick
LongRays == {<<Vec3(0, 1, 0), Vec3(7, 1, 0)>>}

LongBaseStepCounts == {80}

LongStepCaps == {34, 35, 36}

LongRawDensities == {Float(1, 100), Float(1, 50), Float(1, 2)}

\* the values sampleFogDensity can return at the next sample: any of
\* RawDensities in a short march, the density of the field in a long one
FieldValues ==
  IF maxRaymarchStepCount \in LongStepCaps
  THEN (IF rawSeen = {} THEN LongRawDensities ELSE rawSeen)
  ELSE RawDensities

(***************************************************************************)
(* march, for one pixel.                                                   *)
(***************************************************************************)
InitUniforms ==
  /\ \/ /\ \E b \in MarchFogBounds :
             fogMinY = Float(b[1], 1) /\ fogMaxY = Float(b[2], 1)
        /\ \E r \in Rays : rayStartPos = r[1] /\ rayEndPos = r[2]
        /\ baseRaymarchStepCount \in BaseStepCounts
        /\ maxRaymarchStepCount \in StepCaps
        /\ baseMaxRayLength \in BaseMaxRayLengths
        /\ minStepLength \in MinStepLengths
     \/ /\ fogMinY = Float(0, 1) /\ fogMaxY = Float(2, 1)
        /\ \E r \in LongRays : rayStartPos = r[1] /\ rayEndPos = r[2]
        /\ baseRaymarchStepCount \in LongBaseStepCounts
        /\ maxRaymarchStepCount \in LongStepCaps
        /\ baseMaxRayLength = Float(300, 1)
        /\ minStepLength = Float(1, 5)
  /\ maxDensity \in MaxDensities
  /\ fogColorHighDensity = Vec3(0, 1, 1)
  /\ fogColorLowDensity = Vec3(1, 1, 1)
  /\ fogDensityMultiplier \in FogDensityMultipliers
  /\ postDensityMultiplier \in PostDensityMultipliers
  /\ postDensityPow \in PostDensityPows
  /\ blueNoiseSample \in BlueNoiseSamples

InitLocals ==
  /\ startPos = rayStartPos
  /\ endPos = rayEndPos
  /\ rayDir = Zero3
  /\ rayLength = FZero
  /\ maxRayLength = FZero
  /\ baseStepLength = FZero
  /\ jitter = FZero
  /\ density = FZero
  /\ totalDistance = FZero
  /\ totalIters = 0
  /\ accumulatedColor = Zero3
  /\ result = Transparent
  /\ planeDirs = <<>>
  /\ lastSample = NoSample
  /\ rawSeen = {}
  /\ clipped = <<rayStartPos, rayEndPos>>
  /\ outcome = "None"

\* null and undefined, which the pass does not tell apart
Null == "null"

\* no render target: fogRenderTarget = null
NoTarget == <<0, 0>>

\* the keys of VolumetricPassParams the model follows: the two ambient light
\* keys, a key that names a uniform and a key that names none
ParamKeys == {"ambientLightColor", "ambientLightIntensity", "fogMinY", "halfRes"}

\* the material's uniforms the model follows
UniformNames == {"sceneDepth", "sceneDiffuse", "blueNoise", "cameraPos",
                 "cameraProjectionMatrixInv", "cameraMatrixWorld",
                 "curTimeSeconds", "ambientLightColor", "ambientLightIntensity",
                 "fogMinY", "noiseTexture"}

\* const uniforms = { ... } in the constructor of VolumetricMaterial
MaterialUniforms ==
  [n \in UniformNames |->
     CASE n = "ambientLightColor" -> "0xffffff"
       [] n = "ambientLightIntensity" -> "0"
       [] n = "fogMinY" -> "-40"
       [] n = "curTimeSeconds" -> "0"
       [] n = "cameraPos" -> "Vector3(0,0,0)"
       [] n \in {"cameraProjectionMatrixInv", "cameraMatrixWorld"} -> "Matrix4()"
       [] OTHER -> Null]

\* nothing has been rendered
NotRendered == [target |-> "none", composited |-> FALSE, blueNoise |-> Null,
                noiseTexture |-> Null]

\* no pass exists
PassIdle ==
  /\ passPc = "Idle"
  /\ params = [k \in ParamKeys |-> Null]
  /\ uniforms = MaterialUniforms
  /\ resolution = <<1, 1>>
  /\ sceneLight = [inScene |-> FALSE, color |-> "0xcccccc", intensity |-> "1"]
  /\ ambientLight = Null
  /\ compositorPass = FALSE
  /\ fogRenderTarget = NoTarget
  /\ noiseTexture3D = Null
  /\ blueNoiseLoad = "none"
  /\ renderToScreen = FALSE
  /\ defines = FALSE
  /\ curTimeSeconds = "0"
  /\ constructedHalfRes = FALSE
  /\ texturesGenerated = 0
  /\ lastSize = NoTarget
  /\ rendered = NotRendered
  /\ uniformsCurrent = FALSE

\* the uniforms of sampleFogDensity at the defaults of the material, its
\* locals before the call
InitNoiseLocals ==
  /\ octave = 0
  /\ noise = FZero
  /\ totalSampledMagnitude = FZero
  /\ remapped = FZero
  /\ clampedNoise = FZero

NoiseIdle ==
  /\ noiseBias = Float(97, 200)
  /\ noisePow = 3
  /\ heightFogStartY = Float(-10, 1)
  /\ heightFogEndY = Float(8, 1)
  /\ heightFogFactor = Float(463, 2500)
  /\ fogFadeOutRangeY = Float(3, 2)
  /\ fogFadeOutPow = 1
  /\ worldPosY = FZero
  /\ InitNoiseLocals

\* main calls march(rayStartPos, rayEndPos, screenCoord)
Init ==
  /\ InitUniforms
  /\ NoiseIdle
  /\ PassIdle
  /\ pc = "Init"
  /\ InitLocals

\* march up to the loop: clip, the early return, the ray set-up
MarchInit ==
  /\ pc = "Init"
  /\ \E c \in {clipRayEndpoints(startPos, endPos, fogMinY, fogMaxY)} :
       /\ planeDirs' = c.planeDirs
       /\ endPos' = c.endPos
       /\ IF VEq(c.startPos, c.endPos)
          THEN /\ startPos' = c.startPos
               /\ result' = Transparent
               /\ outcome' = "Empty"
               /\ pc' = "Done"
               /\ UNCHANGED <<setupVars, loopVars>>
          ELSE \E dir \in {Normalize(VSub(c.endPos, c.startPos))},
                  len \in {Length(VSub(c.endPos, c.startPos))},
                  jit \in {FMul(FSub(blueNoiseSample, JitterCentre), JitterScale)} :
               \E maxL \in {FAdd(baseMaxRayLength,
                                  FMin(FMul(len, LongRayFactor),
                                       Float(LongRayCap, 1)))} :
               \E clampedLen \in {IF FLt(maxL, len) THEN maxL ELSE len} :
                 /\ rayDir' = dir
                 /\ maxRayLength' = maxL
                 /\ rayLength' = clampedLen
                 /\ baseStepLength' = FDiv(clampedLen,
                                           Float(baseRaymarchStepCount, 1))
                 /\ jitter' = jit
                 /\ startPos' = VAdd(c.startPos, VScale(dir, jit))
                 /\ density' = FZero
                 /\ totalDistance' = FZero
                 /\ totalIters' = 0
                 /\ accumulatedColor' = Zero3
                 /\ pc' = "Stepping"
                 /\ UNCHANGED <<result, outcome>>
  /\ UNCHANGED <<uniformVars, noiseVars, passVars, rayVars, sampleVars, clipped>>

\* one pass through the loop body that reaches sampleOneStep
MarchStep ==
  /\ pc = "Stepping"
  /\ LoopCondition
  /\ ~CapExceeded
  /\ \E rawDensity \in FieldValues, stepLength \in {StepLength} :
     \E s \in {sampleOneStep(totalDistance, stepLength, startPos, rayDir,
                             accumulatedColor, density, rawDensity)} :
       /\ totalIters' = NextIters(totalIters)
       /\ accumulatedColor' = s.accumulatedColor
       /\ density' = s.accumulatedDensity
       /\ totalDistance' = FAdd(totalDistance, stepLength)
       /\ lastSample' = [curPos |-> s.curPos, rawDensity |-> rawDensity,
                         stepSize |-> stepLength]
       /\ rawSeen' = rawSeen \cup {rawDensity}
       /\ pc' = IF IsSaturated(s.accumulatedDensity) THEN "Saturated" ELSE "Stepping"
  /\ UNCHANGED <<uniformVars, noiseVars, passVars, rayVars, startPos, endPos, setupVars, result,
                 planeDirs, outcome, clipped>>

\* the safety check fires: return vec4(1., 1., 0., 1.)
MarchCapped ==
  /\ pc = "Stepping"
  /\ LoopCondition
  /\ CapExceeded
  /\ result' = Sentinel
  /\ outcome' = "IterationCapped"
  /\ pc' = "Done"
  /\ UNCHANGED <<uniformVars, noiseVars, passVars, rayVars, startPos, endPos, setupVars, loopVars,
                 planeDirs, sampleVars, clipped>>

\* the loop condition fails
MarchExhausted ==
  /\ pc = "Stepping"
  /\ ~LoopCondition
  /\ pc' = "Exhausted"
  /\ UNCHANGED <<uniformVars, noiseVars, passVars, rayVars, startPos, endPos, setupVars, loopVars,
                 result, planeDirs, sampleVars, outcome, clipped>>

\* terminal shaping and the return
MarchShape ==
  /\ pc \in {"Saturated", "Exhausted"}
  /\ \E d \in PowResults(FMul(density, postDensityMultiplier), postDensityPow) :
       /\ density' = d
       /\ result' = ShapedResult(accumulatedColor, d)
  /\ outcome' = pc
  /\ pc' = "Done"
  /\ UNCHANGED <<uniformVars, noiseVars, passVars, rayVars, startPos, endPos, setupVars, totalDistance,
                 totalIters, accumulatedColor, planeDirs, sampleVars, clipped>>

Next == MarchInit \/ MarchStep \/ MarchCapped \/ MarchExhausted \/ MarchShape

Spec == Init /\ [][Next]_vars

\* the shader runs to its return: every enabled step is eventually taken
FairSpec == Spec /\ WF_vars(Next)

(***************************************************************************)
(* clipRayEndpoints on its own, applied to a segment and then to the       *)
(* segment it returned.                                                    *)
(***************************************************************************)
InitClip ==
  /\ \E b \in FogBounds : fogMinY = Float(b[1], 1) /\ fogMaxY = Float(b[2], 1)
  /\ baseRaymarchStepCount = 1
  /\ maxRaymarchStepCount = 0
  /\ baseMaxRayLength = Float(1, 1)
  /\ minStepLength = FZero
  /\ maxDensity = Float(1, 1)
  /\ fogColorHighDensity = Vec3(0, 1, 1)
  /\ fogColorLowDensity = Vec3(1, 1, 1)
  /\ fogDensityMultiplier = Float(1, 1)
  /\ postDensityMultiplier = Float(1, 1)
  /\ postDensityPow = 1
  /\ blueNoiseSample = FZero
  /\ \E r \in Rays \cup SlopedRays : rayStartPos = r[1] /\ rayEndPos = r[2]
  /\ pc = "Clip"
  /\ InitLocals
  /\ NoiseIdle
  /\ PassIdle

\* clipRayEndpoints(startPos, endPos)
ClipApply(from, to) ==
  /\ pc = from
  /\ LET c == clipRayEndpoints(startPos, endPos, fogMinY, fogMaxY)
     IN  /\ startPos' = c.startPos
         /\ endPos' = c.endPos
         /\ planeDirs' = planeDirs \o c.planeDirs
  /\ clipped' = <<startPos, endPos>>
  /\ pc' = to
  /\ UNCHANGED <<uniformVars, noiseVars, passVars, rayVars, setupVars, loopVars, result, sampleVars, outcome>>

Clip == ClipApply("Clip", "Clipped")

Reclip == ClipApply("Clipped", "Reclipped")

NextClip == Clip \/ Reclip

SpecClip == InitClip /\ [][NextClip]_vars

(***************************************************************************)
(* The density field: sampleFogDensity.  The noise texture is random, so   *)
(* each octave draws its texel from NoiseTexels; worldPos enters only by   *)
(* its height.                                                             *)
(***************************************************************************)
\* #define OCTAVE_COUNT 6
OCTAVE_COUNT == 6

\* const float LODWeights[TOTAL_LOD_COUNT]
LODWeights == <<Float(1, 1), Float(3, 10), Float(1, 5), Float(1, 10), Float(3, 50), Float(7, 200)>>

\* texture(noiseTexture, ...).r * 2. - 1.
sampleFogFromNoise(texel) == FSub(FMul(texel, Float(2, 1)), Float(1, 1))

\* the value returned and totalSampledMagnitude on return
sampleFogDensityLOD(texel, total, lod) ==
  Let(LODWeights[lod + 1], LAMBDA weight :
    [value |-> FMul(sampleFogFromNoise(texel), weight),
     totalSampledMagnitude |-> FAdd(total, weight)])

\* noise * 0.5 + 0.5
Remap(x) == FAdd(FMul(x, Float(1, 2)), Float(1, 2))

\* smoothstep(edge0, edge1, x)
Smoothstep(edge0, edge1, x) ==
  Let(FClamp(FDiv(FSub(x, edge0), FSub(edge1, edge0)), FZero, Float(1, 1)), LAMBDA t :
    FMul(FMul(t, t), FSub(Float(3, 1), FMul(Float(2, 1), t))))

\* 1. - pow(smoothstep(fogMaxY - fogFadeOutRangeY, fogMaxY, y), fogFadeOutPow):
\* the values a build can return
computeFadeOutYFactor(y) ==
  {FSub(Float(1, 1), p) :
     p \in PowResults(Smoothstep(FSub(fogMaxY, fogFadeOutRangeY), fogMaxY, y),
                      fogFadeOutPow)}

\* the height fog term and the fade out applied to the shaped noise
HeightAndFade(shaped, y, fadeOut) ==
  Let(IF FLe(y, heightFogEndY)
      THEN FAdd(shaped, FMul(FSub(Float(1, 1), Smoothstep(heightFogStartY, heightFogEndY, y)),
                             heightFogFactor))
      ELSE shaped, LAMBDA withHeight :
    FMul(withHeight, fadeOut))

\* values read from the red channel of the noise texture
NoiseTexels == {FZero, Float(1, 2), Float(1, 1)}

NoiseBiases == {Float(97, 200)}

NoisePows == {1, 3}

WorldHeights == {FZero, Float(1, 1), Float(3, 2), Float(2, 1), Float(3, 1)}

InitNoise ==
  /\ fogMinY = FZero
  /\ fogMaxY = Float(2, 1)
  /\ baseRaymarchStepCount = 1
  /\ maxRaymarchStepCount = 0
  /\ baseMaxRayLength = Float(1, 1)
  /\ minStepLength = FZero
  /\ maxDensity = Float(1, 1)
  /\ fogColorHighDensity = Vec3(0, 1, 1)
  /\ fogColorLowDensity = Vec3(1, 1, 1)
  /\ fogDensityMultiplier = Float(1, 1)
  /\ postDensityMultiplier = Float(1, 1)
  /\ postDensityPow = 1
  /\ blueNoiseSample = FZero
  /\ rayStartPos = Zero3
  /\ rayEndPos = Zero3
  /\ InitLocals
  /\ PassIdle
  /\ noiseBias \in NoiseBiases
  /\ noisePow \in NoisePows
  /\ heightFogStartY = FZero
  /\ heightFogEndY = Float(2, 1)
  /\ heightFogFactor = Float(1, 2)
  /\ fogFadeOutRangeY = Float(1, 1)
  /\ fogFadeOutPow = 1
  /\ worldPosY \in WorldHeights
  /\ octave = 0
  /\ noise = noiseBias
  /\ totalSampledMagnitude = FZero
  /\ remapped = FZero
  /\ clampedNoise = FZero
  /\ pc = "Octaves"

\* noise += sampleFogDensityLOD(worldPos, totalSampledMagnitude, octave)
SampleOctave ==
  /\ pc = "Octaves"
  /\ octave < OCTAVE_COUNT
  /\ \E texel \in NoiseTexels :
     \E lod \in {sampleFogDensityLOD(texel, totalSampledMagnitude, octave)} :
       /\ noise' = FAdd(noise, lod.value)
       /\ totalSampledMagnitude' = lod.totalSampledMagnitude
  /\ octave' = octave + 1
  /\ UNCHANGED <<uniformVars, pc, marchVars, passVars, noiseUniformVars, worldPosY,
                 remapped, clampedNoise>>

\* after the loop: the remap, the clamp, pow, the height fog and the fade out
NoiseFinish ==
  /\ pc = "Octaves"
  /\ octave >= OCTAVE_COUNT
  /\ \E r \in {Remap(noise)} :
     \E c \in {FClamp(r, Float(-1, 1), Float(1, 1))} :
     \E shaped \in PowResults(c, noisePow), fadeOut \in computeFadeOutYFactor(worldPosY) :
       /\ remapped' = r
       /\ clampedNoise' = c
       /\ noise' = HeightAndFade(shaped, worldPosY, fadeOut)
  /\ pc' = "NoiseDone"
  /\ UNCHANGED <<uniformVars, marchVars, passVars, noiseUniformVars, worldPosY,
                 octave, totalSampledMagnitude>>

NextNoise == SampleOctave \/ NoiseFinish

SpecNoise == InitNoise /\ [][NextNoise]_vars

(***************************************************************************)
(* The pass: VolumetricMaterial and VolumetricPass.  JavaScript values are *)
(* modelled by their text; a constructor or a method runs to completion,   *)
(* and the completion callback of the blue noise load runs between them.   *)
(***************************************************************************)
\* the texture getBlueNoiseTexture resolves to
BlueNoiseTexture == "blueNoiseTexture"

\* the Data3DTexture the constructor creates
NoiseTexture == "noiseTexture3D"

\* a value in a condition: params.halfRes ? a : b
Truthy(v) == v \notin {Null, "false", "0"}

\* a || b, which also passes over 0 and false
CoalesceFalsy(a, b) == IF Truthy(a) THEN a ELSE b

\* a ?? b
Coalesce(a, b) == IF a # Null THEN a ELSE b

\* light?.color and light?.intensity of the light the constructor found
LightColor(light) == IF light = Null THEN Null ELSE sceneLight.color

LightIntensity(light) == IF light = Null THEN Null ELSE sceneLight.intensity

\* the three camera uniforms
BindCamera(u) ==
  [u EXCEPT !["cameraPos"] = "playerCamera.position",
            !["cameraProjectionMatrixInv"] = "playerCamera.projectionMatrixInverse",
            !["cameraMatrixWorld"] = "playerCamera.matrixWorld"]

\* the two ambient light uniforms
BindAmbient(u, p, light) ==
  [u EXCEPT !["ambientLightColor"] =
              Coalesce(p["ambientLightColor"], Coalesce(LightColor(light), "0xffffff")),
            !["ambientLightIntensity"] =
              Coalesce(p["ambientLightIntensity"], Coalesce(LightIntensity(light), "0"))]

\* the binding left out
BindNoiseSkipped(u, tex) == u

\* uniforms.noiseTexture.value = this.noiseTexture3D
BindNoise(u, tex) == [u EXCEPT !["noiseTexture"] = tex]

\* for (const [key, value] of Object.entries(this.params)) ...
CopyParams(u, p) ==
  [n \in DOMAIN u |->
     IF /\ n \in DOMAIN p
        /\ p[n] # Null
        /\ n \notin {"ambientLightColor", "ambientLightIntensity"}
     THEN p[n] ELSE u[n]]

\* material.uniforms after updateUniforms()
updateUniforms(u, p, light, tex) ==
  CopyParams(BindNoise(BindAmbient(BindCamera(u), p, light), tex), p)

\* the assignment left out
OnBlueNoiseLoadedDropped(u) == u

\* blueNoiseTexture => { this.uniforms.blueNoise.value = blueNoiseTexture; }
OnBlueNoiseLoaded(u) == [u EXCEPT !["blueNoise"] = BlueNoiseTexture]

\* Math.ceil(size * (halfRes ? 0.5 : 1))
ScaledSize(size, halfRes) == IF Truthy(halfRes) THEN (size + 1) \div 2 ELSE size

\* the render target render() selects
RenderTarget == IF compositorPass THEN "fogRenderTarget"
                ELSE IF renderToScreen THEN "screen" ELSE "outputBuffer"

ParamValues(k) ==
  CASE k = "ambientLightColor" -> {Null, "0xff0000"}
    [] k = "ambientLightIntensity" -> {Null, "0"}
    [] k = "fogMinY" -> {Null, "0"}
    [] k = "halfRes" -> {"false", "true"}

LightIntensities == {"1", "3"}

\* the arguments of setCurTimeSeconds
TimeValues == {"5"}

\* the texture the composer hands to setDepthTexture
DepthTexture == "depthTexture"

\* the arguments of setSize
Sizes == {<<width, width + 1>> : width \in 1..MaxSize}

InitPass ==
  /\ fogMinY = FZero
  /\ fogMaxY = Float(2, 1)
  /\ baseRaymarchStepCount = 1
  /\ maxRaymarchStepCount = 0
  /\ baseMaxRayLength = Float(1, 1)
  /\ minStepLength = FZero
  /\ maxDensity = Float(1, 1)
  /\ fogColorHighDensity = Vec3(0, 1, 1)
  /\ fogColorLowDensity = Vec3(1, 1, 1)
  /\ fogDensityMultiplier = Float(1, 1)
  /\ postDensityMultiplier = Float(1, 1)
  /\ postDensityPow = 1
  /\ blueNoiseSample = FZero
  /\ rayStartPos = Zero3
  /\ rayEndPos = Zero3
  /\ InitLocals
  /\ NoiseIdle
  /\ pc = "Pass"
  /\ passPc = "New"
  /\ params \in {p \in [ParamKeys -> UNION {ParamValues(k) : k \in ParamKeys}] :
                   \A k \in ParamKeys : p[k] \in ParamValues(k)}
  /\ uniforms = MaterialUniforms
  /\ resolution = <<1, 1>>
  /\ \E present \in BOOLEAN :
       sceneLight = [inScene |-> present, color |-> "0xcccccc", intensity |-> "1"]
  /\ ambientLight = Null
  /\ compositorPass = FALSE
  /\ fogRenderTarget = NoTarget
  /\ noiseTexture3D = Null
  /\ blueNoiseLoad = "none"
  /\ renderToScreen \in BOOLEAN
  /\ defines = FALSE
  /\ curTimeSeconds = "0"
  /\ constructedHalfRes = FALSE
  /\ texturesGenerated = 0
  /\ lastSize = NoTarget
  /\ rendered = NotRendered
  /\ uniformsCurrent = FALSE

\* new VolumetricPass(scene, camera, params), with new VolumetricMaterial(params)
Construct ==
  /\ passPc = "New"
  /\ defines' = ~Truthy(params["halfRes"])
  /\ blueNoiseLoad' = "pending"
  /\ compositorPass' = Truthy(params["halfRes"])
  /\ fogRenderTarget' = IF Truthy(params["halfRes"]) THEN <<1, 1>> ELSE NoTarget
  /\ \E light \in {IF sceneLight.inScene THEN "AmbientLight" ELSE Null} :
       /\ ambientLight' = light
       /\ uniforms' = updateUniforms(MaterialUniforms, params, light, noiseTexture3D)
  /\ noiseTexture3D' = NoiseTexture
  /\ texturesGenerated' = texturesGenerated + 1
  /\ constructedHalfRes' = Truthy(params["halfRes"])
  /\ passPc' = "Ready"
  /\ uniformsCurrent' = TRUE
  /\ UNCHANGED <<uniformVars, pc, marchVars, noiseVars, params, resolution,
                 sceneLight, renderToScreen, curTimeSeconds, lastSize, rendered>>

\* the caller assigns a key of the params object it passed
SetParam ==
  /\ passPc = "Ready"
  /\ \E k \in ParamKeys : \E v \in ParamValues(k) :
       params' = [params EXCEPT ![k] = v]
  /\ uniformsCurrent' = (uniformsCurrent /\ params' = params)
  /\ UNCHANGED <<uniformVars, pc, marchVars, noiseVars, passPc, uniforms,
                 resolution, sceneLight, ambientLight, compositorPass,
                 fogRenderTarget, noiseTexture3D, blueNoiseLoad, renderToScreen,
                 defines, curTimeSeconds, constructedHalfRes, texturesGenerated,
                 lastSize, rendered>>

\* the caller changes its ambient light, or adds it to or takes it from the scene
SetLight ==
  /\ passPc = "Ready"
  /\ \/ \E i \in LightIntensities : sceneLight' = [sceneLight EXCEPT !.intensity = i]
     \/ sceneLight' = [sceneLight EXCEPT !.inScene = ~sceneLight.inScene]
  /\ uniformsCurrent' = (uniformsCurrent /\ sceneLight'.intensity = sceneLight.intensity)
  /\ UNCHANGED <<uniformVars, pc, marchVars, noiseVars, passPc, params, uniforms,
                 resolution, ambientLight, compositorPass, fogRenderTarget,
                 noiseTexture3D, blueNoiseLoad, renderToScreen, defines,
                 curTimeSeconds, constructedHalfRes, texturesGenerated,
                 lastSize, rendered>>

\* the promise of getBlueNoiseTexture resolves and its callback runs
BlueNoiseLoaded ==
  /\ passPc = "Ready"
  /\ blueNoiseLoad = "pending"
  /\ uniforms' = OnBlueNoiseLoaded(uniforms)
  /\ blueNoiseLoad' = "resolved"
  /\ UNCHANGED <<uniformVars, pc, marchVars, noiseVars, passPc, params, uniformsCurrent,
                 resolution, sceneLight, ambientLight, compositorPass,
                 fogRenderTarget, noiseTexture3D, renderToScreen, defines,
                 curTimeSeconds, constructedHalfRes, texturesGenerated,
                 lastSize, rendered>>

\* setSize(width, height)
SetSize ==
  /\ passPc = "Ready"
  /\ \E size \in Sizes : \E width \in {size[1]}, height \in {size[2]} :
       /\ resolution' = <<width, height>>
       /\ fogRenderTarget' =
            IF fogRenderTarget = NoTarget THEN NoTarget
            ELSE <<ScaledSize(width, params["halfRes"]),
                   ScaledSize(height, params["halfRes"])>>
       /\ lastSize' = <<width, height>>
  /\ UNCHANGED <<uniformVars, pc, marchVars, noiseVars, passPc, params, uniforms, uniformsCurrent,
                 sceneLight, ambientLight, compositorPass, noiseTexture3D,
                 blueNoiseLoad, renderToScreen, defines, curTimeSeconds,
                 constructedHalfRes, texturesGenerated, rendered>>

\* render(renderer, inputBuffer, outputBuffer)
Render ==
  /\ passPc = "Ready"
  /\ \E u \in {updateUniforms(uniforms, params, ambientLight, noiseTexture3D)} :
       /\ uniforms' = [u EXCEPT !["sceneDiffuse"] = "inputBuffer.texture",
                                !["curTimeSeconds"] = curTimeSeconds]
       /\ rendered' = [target |-> RenderTarget,
                       composited |-> compositorPass,
                       blueNoise |-> u["blueNoise"],
                       noiseTexture |-> u["noiseTexture"]]
  /\ uniformsCurrent' = TRUE
  /\ UNCHANGED <<uniformVars, pc, marchVars, noiseVars, passPc, params,
                 resolution, sceneLight, ambientLight, compositorPass,
                 fogRenderTarget, noiseTexture3D, blueNoiseLoad, renderToScreen,
                 defines, curTimeSeconds, constructedHalfRes, texturesGenerated,
                 lastSize>>

\* setCurTimeSeconds(newCurTimeSeconds)
SetCurTimeSeconds ==
  /\ passPc = "Ready"
  /\ \E newCurTimeSeconds \in TimeValues : curTimeSeconds' = newCurTimeSeconds
  /\ UNCHANGED <<uniformVars, pc, marchVars, noiseVars, passPc, params, uniforms,
                 uniformsCurrent, resolution, sceneLight, ambientLight,
                 compositorPass, fogRenderTarget, noiseTexture3D, blueNoiseLoad,
                 renderToScreen, defines, constructedHalfRes, texturesGenerated,
                 lastSize, rendered>>

\* setDepthTexture(depthTexture, depthPacking)
SetDepthTexture ==
  /\ passPc = "Ready"
  /\ uniforms' = [uniforms EXCEPT !["sceneDepth"] = DepthTexture]
  /\ UNCHANGED <<uniformVars, pc, marchVars, noiseVars, passPc, params,
                 uniformsCurrent, resolution, sceneLight, ambientLight,
                 compositorPass, fogRenderTarget, noiseTexture3D, blueNoiseLoad,
                 renderToScreen, defines, curTimeSeconds, constructedHalfRes,
                 texturesGenerated, lastSize, rendered>>

\* updateUniforms(), called by the user of the pass
UpdateUniforms ==
  /\ passPc = "Ready"
  /\ uniforms' = updateUniforms(uniforms, params, ambientLight, noiseTexture3D)
  /\ uniformsCurrent' = TRUE
  /\ UNCHANGED <<uniformVars, pc, marchVars, noiseVars, passPc, params,
                 resolution, sceneLight, ambientLight, compositorPass,
                 fogRenderTarget, noiseTexture3D, blueNoiseLoad, renderToScreen,
                 defines, curTimeSeconds, constructedHalfRes, texturesGenerated,
                 lastSize, rendered>>

NextPass ==
  \/ Construct \/ SetParam \/ SetLight \/ BlueNoiseLoaded \/ SetSize \/ Render
  \/ SetCurTimeSeconds \/ SetDepthTexture \/ UpdateUniforms

SpecPass == InitPass /\ [][NextPass]_vars

(***************************************************************************)
(* Properties.                                                             *)
(***************************************************************************)
\* the states of the stepping loop and of its two exits, before the shaping
InLoop == pc \in {"Stepping", "Saturated", "Exhausted"}

\* the ray main passed lies strictly below fogMinY
RayBelowFog == FLt(rayStartPos[2], fogMinY) /\ FLt(rayEndPos[2], fogMinY)

\* the ray main passed lies strictly above fogMaxY
RayAboveFog == FLt(fogMaxY, rayStartPos[2]) /\ FLt(fogMaxY, rayEndPos[2])

\* C1: a ray whose two end points are both strictly below fogMinY, or both
\* strictly above fogMaxY, makes march return opacity 0 and colour (0,0,0)
\* at once: no iteration is counted and sampleOneStep is never called.
C1_OutsideRayIsTransparent ==
  (pc # "Init" /\ (RayBelowFog \/ RayAboveFog)) =>
     /\ pc = "Done"
     /\ result = <<FZero, FZero, FZero, FZero>>
     /\ totalIters = 0
     /\ lastSample = NoSample
     /\ rawSeen = {}

\* C1 witness: march has returned for a ray of positive length above the fog
C1_Witness ==
  /\ pc = "Done"
  /\ RayAboveFog
  /\ rayStartPos # rayEndPos
  /\ result = <<FZero, FZero, FZero, FZero>>

\* C2: the claim as stated: in the stepping loop the accumulated density
\* never decreases from one step to the next and stays within
\* [0, maxDensity].
C2_DensityMonotoneBounded ==
  [][ /\ InLoop' => (FLe(FZero, density') /\ FLe(density', maxDensity'))
      /\ (pc = "Stepping" /\ InLoop') => FLe(density, density')
    ]_vars

\* C3: the claim as stated: the iteration counter never exceeds
\* maxRaymarchStepCount.
C3_ItersWithinCap == totalIters <= maxRaymarchStepCount

\* C4: the claim as stated: every step length passed to sampleOneStep and
\* added to the distance travelled is at least minStepLength.
C4_StepAtLeastMin ==
  lastSample # NoSample => FLe(minStepLength, lastSample.stepSize)

\* the march of one ray reaches its return
Terminates == <>(pc = "Done")

\* C5: the claim as stated: the march of one ray always terminates, and the
\* number of iterations it has run never exceeds maxRaymarchStepCount, also
\* when the per-step advance is zero or negative.
C5_TerminatesWithinCap ==
  /\ Terminates
  /\ [](pc = "Done" => totalIters <= maxRaymarchStepCount)

\* the march ended with the ray marched to its end, or with the density at
\* maxDensity - 0.01 or more after a sample
ExhaustedOrSaturated ==
  \/ ~FLt(totalDistance, rayLength)
  \/ (totalIters >= 1 /\ FLe(FSub(maxDensity, Float(1, 100)), density))

C7_SaturationStopsSampling ==
  [][ (/\ InLoop
       /\ totalIters >= 1
       /\ FLe(FSub(maxDensity, Float(1, 100)), density))
      => (/\ pc' = "Done"
          /\ outcome' = "Saturated"
          /\ totalIters' = totalIters
          /\ totalDistance' = totalDistance
          /\ lastSample' = lastSample
          /\ rawSeen' = rawSeen
          /\ accumulatedColor' = accumulatedColor
          /\ density' \in PowResults(FMul(density, postDensityMultiplier),
                                     postDensityPow))
    ]_vars

\* C7 witness: in a long march the density saturated after several steps
\* while ray was still left to march
C7_Witness ==
  /\ pc = "Saturated"
  /\ FLt(totalDistance, rayLength)
  /\ totalIters >= 3
  /\ totalIters <= maxRaymarchStepCount

\* every sample so far returned the raw density k > 0.01
ConstantField(k) == InLoop /\ rawSeen = {k} /\ FLt(Float(1, 100), k)

(***************************************************************************)
(* The closed form 1 - (1 - k * s * fogDensityMultiplier)^n is a real      *)
(* number, the floats k, s and fogDensityMultiplier taken at their values. *)
(* It is computed here in two ways, neither of them in binary32: exactly,  *)
(* in the residues modulo a prime; and between two bounds, in fixed point. *)
(***************************************************************************)
\* primes below 2^15
Moduli == {32719, 32749}

\* b^e modulo p
RECURSIVE PowMod(_, _, _)
PowMod(b, e, p) ==
  IF e = 0 THEN 1
  ELSE Val({Val({IF c % 2 = 1 THEN (a * h) % p ELSE h :
                   h \in {PowMod((a * a) % p, c \div 2, p)}}) :
              a \in {b}, c \in {e}})

\* the residue modulo p of the number the finite float f is: the floats are
\* dyadic rationals, and 2 has the inverse (p + 1) / 2 modulo an odd p, so
\* sums, differences and products of floats go to those of their residues
Residue(f, p) ==
  Val({((IF a[1] < 0 THEN p - (a[2] % p) ELSE a[2] % p)
          * (IF a[3] >= 0 THEN PowMod(2, a[3], p) ELSE PowMod((p + 1) \div 2, -a[3], p))) % p :
         a \in {f}})

\* the residue of 1 - (1 - k * s * m)^n
ClosedFormResidue(k, s, m, n, p) ==
  Val({(1 + p - PowMod((1 + p - x) % p, n, p)) % p :
         x \in {(((Residue(k, p) * Residue(s, p)) % p) * Residue(m, p)) % p}})

\* floats below and above the real product k * s * m, for m > 0: a rounded
\* product is the float nearest the real one, which so lies between the
\* float before it and the float after it
ProductBelow(k, s, m) == FPred(FMul(FPred(FMul(k, s)), m))

ProductAbove(k, s, m) == FSucc(FMul(FSucc(FMul(k, s)), m))

\* fixed point: the integer i stands for i * 2^-30
One == Pow2[31]

\* 1e-6 in fixed point, rounded down
Tolerance == One \div 1000000

\* the floor of f * 2^30, for a float 0 <= f < 2
FixedBelow(f) ==
  Val({IF a[2] = 0 THEN 0
       ELSE IF a[3] + 30 >= 0 THEN a[2] * Pow2[a[3] + 31]
       ELSE IF -(a[3] + 30) >= 31 THEN 0
       ELSE a[2] \div Pow2[1 - (a[3] + 30)] : a \in {f}})

\* the ceiling of f * 2^30, for a float 0 <= f < 2
FixedAbove(f) ==
  Val({IF a[2] = 0 THEN 0
       ELSE IF a[3] + 30 >= 0 THEN a[2] * Pow2[a[3] + 31]
       ELSE IF -(a[3] + 30) >= 31 THEN 1
       ELSE a[2] \div Pow2[1 - (a[3] + 30)]
              + (IF a[2] % Pow2[1 - (a[3] + 30)] = 0 THEN 0 ELSE 1) : a \in {f}})

\* the floor of the product of two numbers of [0, 1] in fixed point
TimesBelow(x, y) ==
  LET Halves(a1, a0, b1, b0) == a1 * b1 + (a1 * b0 + a0 * b1 + (a0 * b0) \div 32768) \div 32768
  IN  Val({IF a = One THEN b ELSE IF b = One THEN a
           ELSE Halves(a \div 32768, a % 32768, b \div 32768, b % 32768) :
             a \in {x}, b \in {y}})

\* a number of [0, 1] not below that product
TimesAbove(x, y) ==
  Val({IF a = One THEN b ELSE IF b = One THEN a
       ELSE Val({IF c >= One THEN One ELSE c + 1 : c \in {TimesBelow(a, b)}}) :
         a \in {x}, b \in {y}})

\* <<lo, hi>> in fixed point with lo <= 1 - (1 - x)^n <= hi for every real x
\* between the floats below and above, where 0 <= below and above <= 1;
\* n <= 64
ClosedFormBounds(below, above, n) ==
  LET \* <<bound below (1 - x)^i, bound above it, factors left, the same for 1 - x>>
      Times(t) ==
        Val({IF a[3] = 0 THEN a
             ELSE <<TimesBelow(a[1], a[4]), TimesAbove(a[2], a[5]), a[3] - 1, a[4], a[5]>> :
               a \in {t}})
  IN  Val({<<One - t[2], One - t[1]>> :
             t \in {Iter64(Times, <<One, One, n, One - FixedAbove(above),
                                    One - FixedBelow(below)>>)}})

C9_ClipIdempotent ==
  (pc = "Reclipped" /\ FLe(fogMinY, fogMaxY))
    => (VEq(startPos, clipped[1]) /\ VEq(endPos, clipped[2]))

\* C10: for a ray whose end points have equal y, clipRayEndpoints makes no
\* call of intersectRayXZPlane, wherever the ray lies relative to fogMinY and
\* fogMaxY.
C10_HorizontalRayNoIntersection ==
  (pc # "Clip" /\ rayStartPos[2] = rayEndPos[2]) => planeDirs = <<>>

\* C10 witness: a horizontal ray of positive length lying on the fogMinY
\* plane has been clipped
C10_Witness ==
  /\ pc = "Clipped"
  /\ rayStartPos[2] = rayEndPos[2]
  /\ rayStartPos # rayEndPos
  /\ rayStartPos[2] = fogMinY
  /\ FLt(fogMinY, fogMaxY)
  /\ planeDirs = <<>>

\* march has set up a ray that was not collapsed
Marching == pc \in {"Stepping", "Saturated", "Exhausted"} \/ (pc = "Done" /\ outcome # "Empty")

\* C11: the claim as stated: the cap on the marched length is
\* baseMaxRayLength + min(0.2 * L, 1500) with L the length of the unclipped
\* ray rayStartPos..rayEndPos, and the marched length is the clipped length
\* limited to that cap.
C11_CapFromUnclippedLength ==
  Marching =>
     \E unclippedLength \in {Length(VSub(rayEndPos, rayStartPos))},
        c \in {clipRayEndpoints(rayStartPos, rayEndPos, fogMinY, fogMaxY)} :
       /\ maxRayLength = FAdd(baseMaxRayLength,
                              FMin(FMul(unclippedLength, Float(1, 5)),
                                   Float(1500, 1)))
       /\ rayLength = FMin(Length(VSub(c.endPos, c.startPos)), maxRayLength)

\* C12: the claim as stated: every position at which the march loop samples
\* the density field has y in [fogMinY, fogMaxY].
C12_SamplesInsideSlab ==
  lastSample # NoSample =>
     /\ FLe(fogMinY, lastSample.curPos[2])
     /\ FLe(lastSample.curPos[2], fogMaxY)

\* p lies on the line through a and b, as points with real coordinates:
\* (p - a) x (b - a) = 0
OnLine(p, a, b) ==
  \E u \in {<<RSub(ToR(p[1]), ToR(a[1])), RSub(ToR(p[2]), ToR(a[2])),
               RSub(ToR(p[3]), ToR(a[3]))>>},
     v \in {<<RSub(ToR(b[1]), ToR(a[1])), RSub(ToR(b[2]), ToR(a[2])),
               RSub(ToR(b[3]), ToR(a[3]))>>} :
    /\ REq(RMul(u[2], v[3]), RMul(u[3], v[2]))
    /\ REq(RMul(u[3], v[1]), RMul(u[1], v[3]))
    /\ REq(RMul(u[1], v[2]), RMul(u[2], v[1]))

\* the ray passed to clipRayEndpoints is not wholly outside the slab, is not
\* horizontal, and the bounds are not inverted
Clippable ==
  /\ ~(FLt(rayStartPos[2], fogMinY) /\ FLt(rayEndPos[2], fogMinY))
  /\ ~(FLt(fogMaxY, rayStartPos[2]) /\ FLt(fogMaxY, rayEndPos[2]))
  /\ rayStartPos[2] # rayEndPos[2]
  /\ FLe(fogMinY, fogMaxY)

\* C15: the claim as stated: for a segment that is not collapsed, not
\* horizontal, with fogMinY <= fogMaxY, both end points returned by
\* clipRayEndpoints have y in [fogMinY, fogMaxY] and lie on the line through
\* the original end points.
C15_ClippedEndpointsInSlab ==
  (pc = "Clipped" /\ Clippable) =>
     /\ FLe(fogMinY, startPos[2]) /\ FLe(startPos[2], fogMaxY)
     /\ FLe(fogMinY, endPos[2]) /\ FLe(endPos[2], fogMaxY)
     /\ OnLine(startPos, rayStartPos, rayEndPos)
     /\ OnLine(endPos, rayStartPos, rayEndPos)

\* C16: the claim as stated: with the reference weights and octave samples in
\* [-1, 1], the remapped accumulator lies in [0, 1], the clamp to [-1, 1]
\* leaves it unchanged, and the value raised to noisePow is not negative.
C16_RemappedNoiseInUnitRange ==
  pc = "NoiseDone" =>
     /\ FLe(FZero, remapped) /\ FLe(remapped, Float(1, 1))
     /\ clampedNoise = remapped
     /\ FLe(FZero, clampedNoise)

\* C13: whenever updateUniforms has run (in the constructor, in render or on
\* its own) and
\* neither params nor the light has changed since, each ambient light uniform
\* equals the param when it is set, otherwise the value of the ambient light
\* the constructor found in the scene, otherwise the default (0xffffff, 0);
\* every other uniform named by a params key with a non-null value equals
\* that value; params keys that name no uniform add none; and in every state
\* updateUniforms would leave alone the uniforms whose params key is null and
\* those no key names.
C13_UniformsFollowParams ==
  passPc = "Ready" =>
    /\ DOMAIN uniforms = UniformNames
    /\ uniformsCurrent =>
         /\ uniforms["ambientLightColor"] =
              (IF params["ambientLightColor"] # Null THEN params["ambientLightColor"]
               ELSE IF ambientLight # Null THEN sceneLight.color
               ELSE "0xffffff")
         /\ uniforms["ambientLightIntensity"] =
              (IF params["ambientLightIntensity"] # Null
               THEN params["ambientLightIntensity"]
               ELSE IF ambientLight # Null THEN sceneLight.intensity
               ELSE "0")
         /\ (params["fogMinY"] # Null => uniforms["fogMinY"] = params["fogMinY"])
    /\ \A u \in {updateUniforms(uniforms, params, ambientLight, noiseTexture3D)} :
         /\ u["blueNoise"] = uniforms["blueNoise"]
         /\ u["sceneDepth"] = uniforms["sceneDepth"]
         /\ u["sceneDiffuse"] = uniforms["sceneDiffuse"]
         /\ u["curTimeSeconds"] = uniforms["curTimeSeconds"]
         /\ (params["fogMinY"] = Null => u["fogMinY"] = uniforms["fogMinY"])

\* C13 witness: a render has brought the uniforms up to date with a param of
\* intensity 0 that overrides the light found at construction, a changed
\* fogMinY, and the light's colour for the colour the params leave unset
C13_Witness ==
  /\ passPc = "Ready"
  /\ uniformsCurrent
  /\ rendered.target # "none"
  /\ ambientLight # Null
  /\ params["ambientLightIntensity"] = "0"
  /\ uniforms["ambientLightIntensity"] = "0"
  /\ params["ambientLightColor"] = Null
  /\ uniforms["ambientLightColor"] = "0xcccccc"
  /\ params["fogMinY"] = "0"
  /\ uniforms["fogMinY"] = "0"
  /\ params["halfRes"] = "true"

\* C14: the claim as stated: after any sequence of setSize, render and
\* mutations of params.halfRes, a render draws into the fog render target and
\* composites through the compositor pass if and only if halfRes was set at
\* construction, and after a setSize the fog render target has half the given
\* width and height, rounded up, if and only if halfRes was set at
\* construction.
C14_HalfResFixedAtConstruction ==
  passPc = "Ready" =>
     /\ rendered.target # "none" =>
          ((rendered.composited /\ rendered.target = "fogRenderTarget")
             <=> constructedHalfRes)
     /\ lastSize # NoTarget =>
          ((fogRenderTarget = <<(lastSize[1] + 1) \div 2, (lastSize[2] + 1) \div 2>>)
             <=> constructedHalfRes)

\* C17: the noise texture is created exactly once, by the constructor, and
\* never replaced; the updateUniforms call of the constructor binds the
\* noiseTexture uniform before the texture exists, leaving it null, and every
\* render draws with the uniform bound to the texture the constructor made.
C17_NoiseTextureBoundAtRender ==
  /\ [](passPc = "Ready" =>
          /\ noiseTexture3D = NoiseTexture
          /\ texturesGenerated = 1
          /\ rendered.target # "none" => rendered.noiseTexture = noiseTexture3D)
  /\ [][/\ passPc = "Ready" =>
             (noiseTexture3D' = noiseTexture3D /\ texturesGenerated' = texturesGenerated)
        /\ (passPc = "New" /\ passPc' = "Ready") =>
             (noiseTexture3D = Null /\ uniforms'["noiseTexture"] = Null)
       ]_vars

\* C17 witness: a render drew with the texture although the constructor had
\* left the uniform null
C17_Witness ==
  /\ passPc = "Ready"
  /\ rendered.target # "none"
  /\ rendered.noiseTexture = NoiseTexture
  /\ uniforms["noiseTexture"] = NoiseTexture

\* C18: the blueNoise uniform changes only in the completion callback of the
\* texture load, which sets it to the loaded texture; a render that runs
\* before the callback draws with blueNoise = null, a render that runs after
\* it draws with the loaded texture; once set the uniform is never null again.
C18_BlueNoiseSetOnlyByCallback ==
  /\ [](passPc = "Ready" =>
          uniforms["blueNoise"] =
            (IF blueNoiseLoad = "resolved" THEN BlueNoiseTexture ELSE Null))
  /\ [][/\ uniforms'["blueNoise"] # uniforms["blueNoise"] =>
             /\ blueNoiseLoad = "pending"
             /\ blueNoiseLoad' = "resolved"
             /\ uniforms'["blueNoise"] = BlueNoiseTexture
        /\ rendered' # rendered =>
             rendered'.blueNoise =
               (IF blueNoiseLoad = "resolved" THEN BlueNoiseTexture ELSE Null)
        /\ uniforms["blueNoise"] # Null => uniforms'["blueNoise"] # Null
       ]_vars

\* C18 witness: a render ran before the callback and drew with null; the
\* callback has run since
C18_Witness ==
  /\ passPc = "Ready"
  /\ rendered.target # "none"
  /\ rendered.blueNoise = Null
  /\ blueNoiseLoad = "resolved"
  /\ uniforms["blueNoise"] = BlueNoiseTexture

=============================================================================
